---- MODULE Spec2Model ----
(***************************************************************************)
(* Telemetry pipeline of the Flask monitoring application                  *)
(* (src/.history/app_20250618114951.py): the request hooks before_request  *)
(* / after_request / handle_exception, the SystemMonitor counters and the  *)
(* error-rate gauge, the health score, and the routes that report them.    *)
(*                                                                         *)
(* The application runs with threaded=True: every request is served by its *)
(* own thread.  SystemMonitor.total_requests and SystemMonitor.error_count *)
(* are plain attributes updated with "+= 1" (a load followed by a store,   *)
(* no lock); prometheus_client Counter.inc / Gauge.set / Histogram.observe *)
(* take the metric's lock and are single steps.                            *)
(*                                                                         *)
(* Floating-point values are modelled as exact rationals <<num, den>> in   *)
(* lowest terms; round(x, 2) is modelled as rounding to hundredths.        *)
(*                                                                         *)
(* Specifications:                                                         *)
(*   Spec        concurrent request threads, clients send any GET request  *)
(*               to the open routes                                        *)
(*   SpecMix     the same threads and steps, clients send one mix of       *)
(*               requests per run                                          *)
(*   SpecHist    the same threads, clients send GET /api/users, requests   *)
(*               take any of the sampled durations                         *)
(*   SpecScore   requests served one at a time and sampler ticks: the      *)
(*               health score and the error rate as functions of the       *)
(*               counts                                                    *)
(*   SpecSampler the monitor thread step by step, requests served one at   *)
(*               a time in between                                         *)
(*   SpecApi     the same threads, clients send requests to the routes     *)
(*               wrapped by require_api_key (POST /api/users, /api/config) *)
(*   FairMonitor the monitor thread alone, scheduled fairly                *)
(*   FairRequests  as SpecSampler, the requests scheduled fairly and       *)
(*               nothing assumed about the monitor thread                  *)
(*   SpecLoad    the load tester (load-test_20250618112717.py)             *)
(*   FairLoad    the load tester, its threads scheduled fairly             *)
(*   SpecActive  the request hooks and error handlers of the app version   *)
(*               with the active_requests gauge (app_20250706113427.py)    *)
(*                                                                         *)
(* http_request_duration_seconds is modelled by its bucket counters and    *)
(* its observation count, the two size histograms by their observation     *)
(* counts.  Of the gauges set by collect_system_metrics the model keeps    *)
(* the value of app_health_score and, for each of them, which tick set it; *)
(* database_connection_pool_size and active_connections are written but    *)
(* never read by the code modelled here and are left out of the state.     *)
(* Time is a logical clock that advances with every time.time() read of    *)
(* increment_error.                                                        *)
(***************************************************************************)
EXTENDS Integers, Sequences, FiniteSets, Bags, TLC

\* ------------------------------------------------------------------ bounds
\* request threads that run at the same time
NumThreads == 2
\* requests served in a run of the full traffic (Spec)
MaxRequests == 3
\* requests served in a run of one traffic mix (SpecMix)
MaxMixRequests == 2
\* serial requests of the function specification (SpecScore)
MaxCount == 4
\* requests served while the monitor thread runs (SpecSampler)
MaxTickRequests == 2
\* the load tester: largest aggregate rate and number of workers (SpecLoad)
MaxRate == 3
MaxWorkers == 2
\* requests served in a run of the histogram specification (SpecHist)
MaxHistRequests == 2
\* requests sent to the protected routes in one behaviour of SpecApi
MaxApiRequests == 2
\* requests sent to the app version with the active_requests gauge (SpecActive)
MaxActiveRequests == 3

\* ------------------------------------------------------------- arithmetic
RECURSIVE GCD(_, _)
GCD(a, b) == IF b = 0 THEN a ELSE GCD(b, a % b)

Max(a, b) == IF a >= b THEN a ELSE b

\* the rational n/d (d > 0) in lowest terms
Frac(n, d) == LET g == GCD(n, d) IN <<n \div g, d \div g>>

NoVal == <<0, 0>>

\* round(x, 2) of Python: nearest hundredth, ties to even
Round2(f) ==
    LET q == (100 * f[1]) \div f[2]
        r == (100 * f[1]) % f[2]
        h == IF 2 * r < f[2] THEN q
             ELSE IF 2 * r > f[2] THEN q + 1
             ELSE IF q % 2 = 0 THEN q ELSE q + 1
    IN  Frac(h, 100)

\* x > k for a rational x and an integer k
FracGT(f, k) == f[1] > k * f[2]
\* x < k for a rational x and an integer k
FracLT(f, k) == f[1] < k * f[2]
\* x + y for rationals x and y
FracAdd(f, g) == Frac(f[1] * g[2] + g[1] * f[2], f[2] * g[2])

\* ------------------------------------------------------- SystemMonitor
\* variant: the ratio is not scaled to a percentage
ErrorRateExpr_ratio(ec, tr) == Frac(ec, tr)

\* (self.error_count / self.total_requests) * 100
ErrorRateExpr(ec, tr) == Frac(100 * ec, tr)

\* round((error_count / max(total_requests, 1)) * 100, 2)
ReportedErrorRate(ec, tr) == Round2(ErrorRateExpr(ec, Max(tr, 1)))

\* variant: the CPU penalty is added instead of subtracted
calculate_health_score_sign(cpu_percent, memory_percent, disk_percent, ec, tr) ==
    LET s0 == 100
        s1 == IF cpu_percent > 80 THEN s0 + 30
              ELSE IF cpu_percent > 60 THEN s0 + 15 ELSE s0
        s2 == IF memory_percent > 90 THEN s1 - 25
              ELSE IF memory_percent > 70 THEN s1 - 10 ELSE s1
        s3 == IF disk_percent > 95 THEN s2 - 20
              ELSE IF disk_percent > 85 THEN s2 - 10 ELSE s2
        s4 == IF tr > 0
              THEN IF FracGT(Frac(100 * ec, tr), 10) THEN s3 - 20
                   ELSE IF FracGT(Frac(100 * ec, tr), 5) THEN s3 - 10
                   ELSE s3
              ELSE s3
    IN  Max(0, s4)

\* variant: "if" in place of "elif", both tiers of a dimension are applied
calculate_health_score_both(cpu_percent, memory_percent, disk_percent, ec, tr) ==
    LET s0 == 100
        s1 == s0 - (IF cpu_percent > 80 THEN 30 ELSE 0)
                 - (IF cpu_percent > 60 THEN 15 ELSE 0)
        s2 == s1 - (IF memory_percent > 90 THEN 25 ELSE 0)
                 - (IF memory_percent > 70 THEN 10 ELSE 0)
        s3 == s2 - (IF disk_percent > 95 THEN 20 ELSE 0)
                 - (IF disk_percent > 85 THEN 10 ELSE 0)
        s4 == IF tr > 0
              THEN s3 - (IF FracGT(Frac(100 * ec, tr), 10) THEN 20 ELSE 0)
                      - (IF FracGT(Frac(100 * ec, tr), 5) THEN 10 ELSE 0)
              ELSE s3
    IN  Max(0, s4)

calculate_health_score(cpu_percent, memory_percent, disk_percent, ec, tr) ==
    LET s0 == 100
        s1 == IF cpu_percent > 80 THEN s0 - 30
              ELSE IF cpu_percent > 60 THEN s0 - 15 ELSE s0
        s2 == IF memory_percent > 90 THEN s1 - 25
              ELSE IF memory_percent > 70 THEN s1 - 10 ELSE s1
        s3 == IF disk_percent > 95 THEN s2 - 20
              ELSE IF disk_percent > 85 THEN s2 - 10 ELSE s2
        s4 == IF tr > 0
              THEN IF FracGT(ErrorRateExpr(ec, tr), 10) THEN s3 - 20
                   ELSE IF FracGT(ErrorRateExpr(ec, tr), 5) THEN s3 - 10
                   ELSE s3
              ELSE s3
    IN  Max(0, s4)

\* ------------------------------------------------------------- requests
Methods == {"GET", "POST"}
Paths == {"/favicon.ico", "/health", "/metrics", "/api/health",
          "/api/analytics", "/api/simulate-error", "/api/users",
          "/api/config"}
Statuses == {200, 201, 400, 403, 404, 429, 500, 503}
ErrorTypes == {"404", "403", "429", "500"}

\* paths for which before_request does not call increment_request
SkipBefore == {"/favicon.ico", "/health", "/metrics"}
\* paths for which after_request records nothing
SkipAfter == {"/favicon.ico", "/metrics"}

\* Config.PROMETHEUS_HEX when the environment does not set it
PROMETHEUS_HEX == "default-key"
\* request.headers.get('X-API-Key') of a request without the header
NoHeader == "None"
ApiKeys == {NoHeader, "wrong-key", PROMETHEUS_HEX}
\* request bodies of POST /api/users: JSON with email and name, or JSON
\* lacking one of them
Bodies == {"valid", "missing"}

\* GET requests sent without an X-API-Key header to the open routes (and to
\* the two paths no route is registered for)
Requests ==
    [method : {"GET"}, path : Paths \ {"/api/simulate-error", "/api/config"},
     arg : {""}, key : {NoHeader}, body : {""}]
    \cup [method : {"GET"}, path : {"/api/simulate-error"}, arg : ErrorTypes,
          key : {NoHeader}, body : {""}]

\* requests to the routes wrapped by require_api_key
ApiRequests ==
    [method : {"POST"}, path : {"/api/users"}, arg : {""}, key : ApiKeys,
     body : Bodies]
    \cup [method : {"GET"}, path : {"/api/config"}, arg : {""}, key : ApiKeys,
          body : {""}]

NoReq == [method |-> "", path |-> "", arg |-> "", key |-> "", body |-> ""]

\* label sets of http_requests_total and of the per-(method, endpoint) histograms
Endpoints == ({"GET"} \X Paths) \cup {<<"POST", "/api/users">>}
Series == {<<e[1], e[2], st>> : e \in Endpoints, st \in Statuses}

\* bucket bounds of http_request_duration_seconds, in milliseconds; the
\* histogram has one more bucket, +Inf
UpperBounds == <<100, 250, 500, 1000, 2500, 5000, 10000>>
Buckets == 1..(Len(UpperBounds) + 1)
\* request durations in milliseconds: on the first bound, just above it,
\* and above the last bound
DurationSamples == {100, 101, 20000}

\* label sets of database_operations_total / database_query_duration_seconds
DbTables == {<<"SELECT", "analytics">>, <<"SELECT", "users">>,
             <<"INSERT", "users">>}
DbSeries == {<<t[1], t[2], st>> : t \in DbTables, st \in {"success", "error"}}
\* label sets of api_calls_total: <<endpoint, method>>
ApiCalls == {<<"/api/users", "GET">>}

\* psutil readings <<cpu, memory, disk>> in percent: the values around every
\* threshold of the health score
CpuSamples == {50, 60, 61, 80, 81, 85, 100}
MemSamples == {50, 70, 71, 90, 91, 95, 100}
DiskSamples == {50, 85, 86, 95, 96, 100}
HostSamples == CpuSamples \X MemSamples \X DiskSamples
\* the readings /api/health sees while requests run concurrently
HostReadings == {<<50, 50, 50>>, <<85, 95, 96>>, <<100, 100, 100>>}

\* an exception: http  it is a werkzeug HTTPException, with its code and
\* description;  message  str(e)
NoExc == [http |-> FALSE, code |-> 0, description |-> "", message |-> ""]
\* a response: the status code and the fields of the JSON body that the
\* model follows (error, error_id, timestamp of an error body; state is the
\* "status" string, rate / score / ec / tr / host the metrics and system
\* sections of /api/health and /api/analytics)
NoResp == [status |-> 0, rate |-> NoVal, score |-> -1, ec |-> 0, tr |-> 0,
           host |-> <<0, 0, 0>>, state |-> "", error |-> "",
           error_id |-> FALSE, timestamp |-> FALSE]
NoDone == [unrecognized |-> FALSE, alone |-> FALSE]
\* the load tester is not running
NoLoadTest ==
    [pc |-> "idle", duration |-> 0, requests_per_second |-> 0,
     num_threads |-> 0, joined |-> 0]
\* the load tester: test durations in seconds, and how long a request takes
LoadDurations == {1}
RequestTimes == {0, 1}
\* what requests.get does: it raises (connection error, timeout) or returns a
\* response with some status code
ResponseCodes == {200, 500}
HttpCalls ==
    [raised : {TRUE}, status_code : {0}]
    \cup [raised : {FALSE}, status_code : ResponseCodes]
NoHttpCall == [raised |-> FALSE, status_code |-> 0]
NoResult == [status_code |-> -1, success |-> FALSE, error |-> FALSE]

NoCall == [fn |-> "", host |-> <<0, 0, 0>>, ec |-> 0, tr |-> 0, score |-> -1,
           rate |-> NoVal]

\* the gauges collect_system_metrics sets from its readings, in the order in
\* which it sets them
SnapshotGauges == {"system_cpu_usage_percent", "system_memory_usage_bytes",
                   "system_memory_available_bytes", "system_disk_usage_percent",
                   "app_uptime_seconds", "app_health_score"}
\* The monitor thread:
\*   pc      position in monitor_loop / collect_system_metrics
\*   cpu_percent, memory_percent, disk_usage_percent, health_score  locals of
\*           collect_system_metrics (-1: not assigned)
\*   failed  history: the tick that ran last raised
\*   resumed history: a tick has started after a tick that raised
NewMonitor ==
    [pc |-> "loop", cpu_percent |-> -1, memory_percent |-> -1,
     disk_usage_percent |-> -1, health_score |-> -1, failed |-> FALSE,
     resumed |-> FALSE, asleep_served |-> 0]

VARIABLES
    error_count,            \* SystemMonitor.error_count
    total_requests,         \* SystemMonitor.total_requests
    error_rate,             \* gauge error_rate_percent
    http_requests_total,    \* counter, by <<method, endpoint, status_code>>
    duration_count,         \* http_request_duration_seconds, observation count
    duration_bucket,        \* http_request_duration_seconds, the counter of
                            \* each bucket, by <<method, endpoint>>
    request_size_count,     \* http_request_size_bytes, observation count
    response_size_count,    \* http_response_size_bytes, observation count
    database_operations_total,      \* counter, by <<operation, table, status>>
    database_query_duration_count,  \* database_query_duration_seconds, count
    api_calls_total,        \* counter, by <<endpoint, method>>
    user_registrations_total,   \* counter
    last_error_timestamp,   \* gauge; 0 until it is first set
    now,                    \* the wall clock, in ticks: time.time() returns it
    active_requests,        \* gauge active_requests of app_20250706113427.py
    app_health_score,       \* gauge app_health_score
    inflight,               \* bag of the requests being served, one thread each
    traffic,                \* the requests clients send in this run
    budget,                 \* how many requests clients send in this run
    started,                \* requests accepted so far
    served,                 \* history: completed requests by series
    last_done,              \* history: the request that completed last
    readings,               \* what psutil reads in this run
    durations,              \* how long requests take in this run
    last_call,              \* history: the last health computation, with the
                            \* readings and counts it used and its results
    monitor,                \* the monitor_loop thread: its position and the
                            \* locals of collect_system_metrics
    snapshot,               \* history: for each system gauge, the tick that
                            \* set the value it holds
    load_test,              \* the load tester: position in run_load_test and
                            \* its arguments
    workers                 \* the load tester: the workers submitted, in order

vars == <<error_count, total_requests, error_rate, http_requests_total,
          duration_count, request_size_count, response_size_count,
          database_operations_total, database_query_duration_count,
          api_calls_total, user_registrations_total, app_health_score,
          inflight, traffic, budget,
          started, served, last_done, readings, last_call, duration_bucket,
          durations, monitor, snapshot, load_test, workers,
          last_error_timestamp, now, active_requests>>

time_vars == <<last_error_timestamp, now>>
shared == <<error_count, total_requests, error_rate, time_vars>>
metrics_vars == <<http_requests_total, duration_count, duration_bucket,
                  request_size_count, response_size_count>>
db_vars == <<database_operations_total, database_query_duration_count,
             api_calls_total, user_registrations_total>>
fn_vars == <<last_call, app_health_score>>
sampler_vars == <<monitor, snapshot>>
load_vars == <<load_test, workers>>
\* history and environment, and the gauge of the other app version
hist_vars == <<served, last_done, traffic, budget, readings, durations,
               load_vars, active_requests>>
\* everything but the load tester
server_vars == <<shared, metrics_vars, db_vars, fn_vars, sampler_vars,
                 inflight, started, served, last_done, traffic, budget,
                 readings, durations, active_requests>>

\* A request being served (the thread-local state of its thread):
\*   pc     position in before_request / route / handle_exception / after_request
\*   req    the request;  exc  the exception raised;  resp  the response
\*   tmp    value loaded by the running "+= 1" or rate expression
\*   val    rate computed, not yet written to the gauge
\*   alone  history: no other request was in flight at any time during this one
\*   counted  history: increment_error has stored error_count for this request
\*   logged   history: logger.error has written a record for this request
\*   caught   history: the route caught an exception itself
NewThread(r, isAlone) ==
    [pc |-> "before", req |-> r, tmp |-> 0, val |-> NoVal, exc |-> NoExc,
     resp |-> NoResp, alone |-> isAlone, counted |-> FALSE, logged |-> FALSE,
     caught |-> FALSE, ts |-> 0]

Start ==
    /\ error_count = 0
    /\ total_requests = 0
    /\ error_rate = <<0, 1>>
    /\ http_requests_total = [s \in Series |-> 0]
    /\ duration_count = [e \in Endpoints |-> 0]
    /\ duration_bucket = [e \in Endpoints |-> [b \in Buckets |-> 0]]
    /\ request_size_count = [e \in Endpoints |-> 0]
    /\ response_size_count = [e \in Endpoints |-> 0]
    /\ database_operations_total = [s \in DbSeries |-> 0]
    /\ database_query_duration_count = [e \in DbTables |-> 0]
    /\ api_calls_total = [c \in ApiCalls |-> 0]
    /\ user_registrations_total = 0
    /\ last_error_timestamp = 0
    /\ now = 0
    /\ active_requests = 0
    /\ app_health_score = 0
    /\ inflight = EmptyBag
    /\ started = 0
    /\ served = [s \in Series |-> 0]
    /\ last_done = NoDone
    /\ last_call = NoCall
    /\ monitor = NewMonitor
    /\ snapshot = [g \in SnapshotGauges |-> "none"]

\* clients may send a GET to every route but /api/config, unkeyed; simulated
\* errors are of type 500; each request takes 0.101 s
Init ==
    /\ Start /\ budget = MaxRequests
    /\ traffic = {r \in Requests : r.arg \in {"", "500"}}
    /\ readings = <<0, 0, 0>> /\ durations = {101}
    /\ load_test = NoLoadTest /\ workers = <<>>

Running == BagToSet(inflight)
Quiescent == inflight = EmptyBag

\* thread p moves on to thread-local state q
Step(p, q) == inflight' = (inflight (-) SetToBag({p})) (+) SetToBag({q})

\* variant: the increment writes 1 instead of adding 1
Inc_overwrite(c, k) == [c EXCEPT ![k] = 1]

\* Counter.inc() / Histogram.observe() count of prometheus_client: one
\* lock-protected increment of the labelled child
Inc(c, k) == [c EXCEPT ![k] = @ + 1]

\* the bucket Histogram.observe(amount) increments: the first whose upper
\* bound is not below the amount, +Inf being the last
BucketOf(amount) ==
    IF \E i \in 1..Len(UpperBounds) : amount <= UpperBounds[i]
    THEN CHOOSE i \in 1..Len(UpperBounds) :
            /\ amount <= UpperBounds[i]
            /\ \A j \in 1..(i - 1) : amount > UpperBounds[j]
    ELSE Len(UpperBounds) + 1

\* variant: there is no +Inf bucket, an amount above the last bound is dropped
Observe_no_inf(h, k, amount) ==
    IF \E i \in 1..Len(UpperBounds) : amount <= UpperBounds[i]
    THEN [h EXCEPT ![k][BucketOf(amount)] = @ + 1]
    ELSE h

\* Histogram.observe(amount) on the buckets of the labelled child
Observe(h, k, amount) == [h EXCEPT ![k][BucketOf(amount)] = @ + 1]

\* the cumulative count of bucket b that the exposition reports: the sum of
\* the bucket counters up to b
RECURSIVE Cumulative(_, _)
Cumulative(h, b) == IF b = 0 THEN 0 ELSE h[b] + Cumulative(h, b - 1)

\* ------------------------------------------------------- before_request
\* A request arrives and gets a thread.  request.start_time and
\* request.request_id are set, then increment_request is entered unless the
\* path is skipped; its first step is the load of "self.total_requests += 1".
before_request(r) ==
    /\ r \in traffic
    /\ BagCardinality(inflight) < NumThreads
    /\ started < budget
    /\ started' = started + 1
    /\ LET marked == BagOfAll(LAMBDA q : [q EXCEPT !.alone = FALSE], inflight)
           new == NewThread(r, Quiescent)
       IN  inflight' = marked (+) SetToBag({
               IF r.path \notin SkipBefore
               THEN [new EXCEPT !.pc = "req_store", !.tmp = total_requests]
               ELSE [new EXCEPT !.pc = "dispatch"]})
    /\ UNCHANGED <<shared, metrics_vars, db_vars, hist_vars, fn_vars, sampler_vars>>

\* the store of "self.total_requests += 1"
increment_request_store(p) ==
    /\ p.pc = "req_store"
    /\ total_requests' = p.tmp + 1
    /\ Step(p, [p EXCEPT !.pc = "req_rate_ec", !.tmp = 0])
    /\ UNCHANGED <<error_count, error_rate, time_vars, metrics_vars, db_vars, started,
                   hist_vars, fn_vars, sampler_vars>>

\* "if self.total_requests > 0:" and the load of self.error_count
RateGuard(p, next, skip) ==
    IF total_requests > 0
    THEN [p EXCEPT !.pc = next, !.tmp = error_count]
    ELSE [p EXCEPT !.pc = skip]

\* the load of self.total_requests, the division and the multiplication
RateCompute(p, next) ==
    [p EXCEPT !.pc = next, !.tmp = 0,
              !.val = ErrorRateExpr(p.tmp, total_requests)]

increment_request_guard(p) ==
    /\ p.pc = "req_rate_ec"
    /\ Step(p, RateGuard(p, "req_rate_tr", "dispatch"))
    /\ UNCHANGED <<shared, metrics_vars, db_vars, started, hist_vars, fn_vars, sampler_vars>>

increment_request_rate(p) ==
    /\ p.pc = "req_rate_tr"
    /\ Step(p, RateCompute(p, "req_rate_set"))
    /\ UNCHANGED <<shared, metrics_vars, db_vars, started, hist_vars, fn_vars, sampler_vars>>

\* error_rate.set(...); before_request returns and the request is dispatched
increment_request_set(p) ==
    /\ p.pc = "req_rate_set"
    /\ error_rate' = p.val
    /\ Step(p, [p EXCEPT !.pc = "dispatch", !.val = NoVal])
    /\ UNCHANGED <<error_count, total_requests, time_vars, metrics_vars, db_vars,
                   started,
                   hist_vars, fn_vars, sampler_vars>>

\* ------------------------------------------------------------- routes
\* e.description of the HTTPException subclasses of werkzeug
Description(code) ==
    CASE code = 403 -> "You don't have the permission to access the requested resource."
      [] code = 404 -> "The requested URL was not found on the server."
      [] code = 429 -> "This user has exceeded an allotted request count."
      [] OTHER -> "The server encountered an internal error."
\* e.name
Name(code) ==
    CASE code = 403 -> "Forbidden"
      [] code = 404 -> "Not Found"
      [] code = 429 -> "Too Many Requests"
      [] OTHER -> "Internal Server Error"
\* the decimal digits of a status code
Digits(code) ==
    CASE code = 403 -> "403" [] code = 404 -> "404" [] code = 429 -> "429"
      [] OTHER -> "500"

\* the exception raised by abort(code); str(e) is "<code> <name>: <description>"
HTTPException(code) ==
    [http |-> TRUE, code |-> code, description |-> Description(code),
     message |-> Digits(code) \o " " \o Name(code) \o ": " \o Description(code)]
\* any other exception, raised with a message of its own
OtherException ==
    [http |-> FALSE, code |-> 500, description |-> "",
     message |-> "Simulated error for testing monitoring"]

\* The exception reaches handle_exception, whose first statement is
\* system_monitor.increment_error(): the load of "self.error_count += 1".
Raise(p, e) == [p EXCEPT !.pc = "err_store", !.exc = e, !.tmp = error_count]

Respond(p, r) == [p EXCEPT !.pc = "after", !.resp = r, !.tmp = 0, !.val = NoVal]

\* no route is registered for /favicon.ico and /health: routing raises NotFound
not_found(p) ==
    /\ p.pc = "dispatch"
    /\ p.req.path \in {"/favicon.ico", "/health"}
    /\ Step(p, Raise(p, HTTPException(404)))
    /\ UNCHANGED <<shared, metrics_vars, db_vars, started, hist_vars, fn_vars, sampler_vars>>

\* GET /metrics: generate_latest() succeeds, or raises and the route aborts 500
metrics(p) ==
    /\ p.pc = "dispatch"
    /\ p.req.path = "/metrics"
    /\ \/ Step(p, Respond(p, [NoResp EXCEPT !.status = 200]))
       \/ Step(p, Raise(p, HTTPException(500)))
    /\ UNCHANGED <<shared, metrics_vars, db_vars, started, hist_vars, fn_vars, sampler_vars>>

\* GET /api/simulate-error?type=...
simulate_error(p) ==
    /\ p.pc = "dispatch"
    /\ p.req.path = "/api/simulate-error"
    /\ Step(p, IF p.req.arg = "404" THEN Raise(p, HTTPException(404))
               ELSE IF p.req.arg = "403" THEN Raise(p, HTTPException(403))
               ELSE IF p.req.arg = "429" THEN Raise(p, HTTPException(429))
               ELSE Raise(p, OtherException))
    /\ UNCHANGED <<shared, metrics_vars, db_vars, started, hist_vars, fn_vars, sampler_vars>>

\* the "except Exception" of health_check: the failure is logged and the
\* route returns the unhealthy body with status 503 itself
Unhealthy(p) ==
    [p EXCEPT !.pc = "after", !.tmp = 0, !.val = NoVal, !.caught = TRUE,
              !.logged = TRUE,
              !.resp = [NoResp EXCEPT !.status = 503, !.state = "unhealthy",
                                      !.error = "psutil read failed",
                                      !.timestamp = TRUE]]

\* variant: no try / except in the route, the exception reaches
\* handle_exception
health_check_uncaught(p) ==
    /\ p.pc = "dispatch"
    /\ p.req.path = "/api/health"
    /\ \/ \E h \in HostReadings :
             Step(p, [p EXCEPT !.pc = "health_rate", !.tmp = error_count,
                               !.resp = [NoResp EXCEPT !.host = h]])
       \/ Step(p, [p EXCEPT !.pc = "err_store", !.tmp = error_count,
                            !.caught = TRUE,
                            !.exc = [http |-> FALSE, code |-> 500,
                                     description |-> "",
                                     message |-> "psutil read failed"]])
    /\ UNCHANGED <<shared, metrics_vars, db_vars, started, hist_vars, fn_vars, sampler_vars>>

\* GET /api/health: the psutil readings are taken (or raise: 503 is returned
\* by the route itself), then the metrics section is built; the first load of
\* the rate expression is system_monitor.error_count
health_check(p) ==
    /\ p.pc = "dispatch"
    /\ p.req.path = "/api/health"
    /\ \/ \E h \in HostReadings :
             Step(p, [p EXCEPT !.pc = "health_rate", !.tmp = error_count,
                               !.resp = [NoResp EXCEPT !.host = h]])
       \/ Step(p, Unhealthy(p))
    /\ UNCHANGED <<shared, metrics_vars, db_vars, started, hist_vars, fn_vars, sampler_vars>>

\* the rest of the rate expression and the call of calculate_health_score,
\* and the healthy body; an exception raised here is caught by the same
\* "except Exception"
health_check_metrics(p) ==
    /\ p.pc = "health_rate"
    /\ \/ Step(p, Respond(p,
              [NoResp EXCEPT
                 !.status = 200,
                 !.state = "healthy",
                 !.timestamp = TRUE,
                 !.rate = Round2(ErrorRateExpr(p.tmp, Max(total_requests, 1))),
                 !.score = calculate_health_score(p.resp.host[1], p.resp.host[2],
                               p.resp.host[3], error_count, total_requests),
                 !.ec = error_count, !.tr = total_requests,
                 !.host = p.resp.host]))
       \/ Step(p, Unhealthy(p))
    /\ UNCHANGED <<shared, metrics_vars, db_vars, started, hist_vars, fn_vars, sampler_vars>>

\* DatabaseSimulator.execute_query variant that records the duration in the
\* except branch as well
execute_query_observes_failure(operation, table, returns) ==
    /\ database_query_duration_count' =
          Inc(database_query_duration_count, <<operation, table>>)
    /\ database_operations_total' =
          Inc(database_operations_total,
              <<operation, table, IF returns THEN "success" ELSE "error">>)

\* DatabaseSimulator.execute_query(operation, table): the call returns True
\* after observing the duration and counting a 'success', or the simulated
\* failure is raised inside the try, the except branch counts an 'error' and
\* re-raises (returns = FALSE: the caller sees the exception)
execute_query(operation, table, returns) ==
    IF returns
    THEN /\ database_query_duration_count' =
               Inc(database_query_duration_count, <<operation, table>>)
         /\ database_operations_total' =
               Inc(database_operations_total, <<operation, table, "success">>)
    ELSE /\ database_operations_total' =
               Inc(database_operations_total, <<operation, table, "error">>)
         /\ UNCHANGED database_query_duration_count

\* GET /api/analytics: db.execute_query("SELECT", "analytics") succeeds or
\* raises (the route re-raises); then the first load of the rate expression
get_analytics(p) ==
    /\ p.pc = "dispatch"
    /\ p.req.path = "/api/analytics"
    /\ \/ /\ execute_query("SELECT", "analytics", TRUE)
          /\ Step(p, [p EXCEPT !.pc = "analytics_rate", !.tmp = error_count])
       \/ /\ execute_query("SELECT", "analytics", FALSE)
          /\ Step(p, Raise(p, OtherException))
    /\ UNCHANGED <<shared, metrics_vars, api_calls_total,
                   user_registrations_total, started, hist_vars, fn_vars,
                   sampler_vars>>

get_analytics_rate(p) ==
    /\ p.pc = "analytics_rate"
    /\ Step(p, Respond(p,
            [NoResp EXCEPT
               !.status = 200,
               !.rate = Round2(ErrorRateExpr(p.tmp, Max(total_requests, 1)))]))
    /\ UNCHANGED <<shared, metrics_vars, db_vars, started, hist_vars, fn_vars, sampler_vars>>

\* GET /api/users: db.execute_query("SELECT", "users") succeeds or raises (the
\* route re-raises); on success api_calls_total is incremented
get_users(p) ==
    /\ p.pc = "dispatch"
    /\ p.req.method = "GET"
    /\ p.req.path = "/api/users"
    /\ \/ /\ execute_query("SELECT", "users", TRUE)
          /\ api_calls_total' = Inc(api_calls_total, <<"/api/users", "GET">>)
          /\ Step(p, Respond(p, [NoResp EXCEPT !.status = 200]))
       \/ /\ execute_query("SELECT", "users", FALSE)
          /\ Step(p, Raise(p, OtherException))
          /\ UNCHANGED api_calls_total
    /\ UNCHANGED <<shared, metrics_vars, user_registrations_total, started,
                   hist_vars, fn_vars, sampler_vars>>

\* decorator variant that lets a request without the header through
require_api_key_unless_absent(r) == r.key = PROMETHEUS_HEX \/ r.key = NoHeader

\* require_api_key: TRUE when the wrapped route function is called; otherwise
\* the decorator calls abort(403)
require_api_key(r) == r.key = PROMETHEUS_HEX

\* POST /api/users. With the configured key: db.execute_query("INSERT",
\* "users") succeeds or raises (the route re-raises); on success
\* user_registrations_total.inc() follows, then the body is validated and the
\* route returns 400 or 201.
create_user(p) ==
    /\ p.pc = "dispatch"
    /\ p.req.method = "POST"
    /\ p.req.path = "/api/users"
    /\ IF ~require_api_key(p.req)
       THEN /\ Step(p, Raise(p, HTTPException(403)))
            /\ UNCHANGED <<database_operations_total,
                           database_query_duration_count,
                           user_registrations_total>>
       ELSE \/ /\ execute_query("INSERT", "users", TRUE)
               /\ user_registrations_total' = user_registrations_total + 1
               /\ Step(p, Respond(p,
                       [NoResp EXCEPT
                          !.status = IF p.req.body = "valid" THEN 201 ELSE 400]))
            \/ /\ execute_query("INSERT", "users", FALSE)
               /\ Step(p, Raise(p, OtherException))
               /\ UNCHANGED user_registrations_total
    /\ UNCHANGED <<shared, metrics_vars, api_calls_total, started, hist_vars,
                   fn_vars, sampler_vars>>

\* GET /api/config: with the configured key the configuration is returned
get_config(p) ==
    /\ p.pc = "dispatch"
    /\ p.req.method = "GET"
    /\ p.req.path = "/api/config"
    /\ IF ~require_api_key(p.req)
       THEN Step(p, Raise(p, HTTPException(403)))
       ELSE Step(p, Respond(p, [NoResp EXCEPT !.status = 200]))
    /\ UNCHANGED <<shared, metrics_vars, db_vars, started, hist_vars, fn_vars,
                   sampler_vars>>

\* ----------------------------------------------------- handle_exception
\* the status code of the error response
ErrorStatus(e) == IF e.http THEN e.code ELSE 500

\* variant: the body carries str(e) for every exception
ErrorMessage_str(e) == e.message

\* the "error" field of the error response
ErrorMessage(e) == IF e.http THEN e.description ELSE "Internal Server Error"

\* jsonify({'error': message, 'error_id': ..., 'timestamp': ...}), status_code
ErrorResponse(e) ==
    [NoResp EXCEPT !.status = ErrorStatus(e), !.error = ErrorMessage(e),
                   !.error_id = TRUE, !.timestamp = TRUE]

\* handle_exception after increment_error: error_details is built, the error
\* record is logged and the error response returned
HandleException(p) ==
    [p EXCEPT !.pc = "after", !.resp = ErrorResponse(p.exc), !.tmp = 0,
              !.val = NoVal, !.logged = TRUE]

\* variant: increment_error returns after the store, the gauge is not refreshed
increment_error_store_only(p) ==
    /\ p.pc = "err_store"
    /\ error_count' = p.tmp + 1
    /\ Step(p, [p EXCEPT !.pc = "after", !.tmp = 0, !.counted = TRUE,
                         !.logged = TRUE,
                         !.resp = [NoResp EXCEPT
                                     !.status = IF p.exc.http THEN p.exc.code
                                                ELSE 500,
                                     !.error = IF p.exc.http
                                               THEN p.exc.description
                                               ELSE "Internal Server Error",
                                     !.error_id = TRUE, !.timestamp = TRUE]])
    /\ UNCHANGED <<total_requests, error_rate, time_vars, metrics_vars, db_vars,
                   started,
                   hist_vars, fn_vars, sampler_vars>>

\* the store of "self.error_count += 1", then the evaluation of time.time(),
\* the argument of last_error_timestamp.set: the clock has advanced since it
\* was last read. The read touches nothing another thread can see, so it is
\* taken in the step of the store
increment_error_store(p) ==
    /\ p.pc = "err_store"
    /\ error_count' = p.tmp + 1
    /\ now' = now + 1
    /\ Step(p, [p EXCEPT !.pc = "err_rate_ec", !.tmp = 0, !.counted = TRUE,
                         !.ts = now + 1])
    /\ UNCHANGED <<total_requests, error_rate, last_error_timestamp,
                   metrics_vars, db_vars, started,
                   hist_vars, fn_vars, sampler_vars>>

\* last_error_timestamp.set(...) with the time read, then
\* "if self.total_requests > 0:"; when it fails increment_error returns and
\* handle_exception builds the error response
increment_error_guard(p) ==
    /\ p.pc = "err_rate_ec"
    /\ last_error_timestamp' = p.ts
    /\ \A q \in {[p EXCEPT !.ts = 0]} :
          Step(p, IF total_requests > 0
                  THEN RateGuard(q, "err_rate_tr", "after")
                  ELSE HandleException(q))
    /\ UNCHANGED <<error_count, total_requests, error_rate, now, metrics_vars,
                   db_vars, started, hist_vars, fn_vars, sampler_vars>>

increment_error_rate(p) ==
    /\ p.pc = "err_rate_tr"
    /\ Step(p, RateCompute(p, "err_rate_set"))
    /\ UNCHANGED <<shared, metrics_vars, db_vars, started, hist_vars, fn_vars, sampler_vars>>

\* error_rate.set(...), then the error response of handle_exception
increment_error_set(p) ==
    /\ p.pc = "err_rate_set"
    /\ error_rate' = p.val
    /\ Step(p, HandleException(p))
    /\ UNCHANGED <<error_count, total_requests, time_vars, metrics_vars, db_vars,
                   started,
                   hist_vars, fn_vars, sampler_vars>>

\* -------------------------------------------------------- after_request
\* the response is returned to the client; the thread ends
Complete(p) ==
    /\ UNCHANGED <<traffic, budget, readings, durations, load_vars,
                   active_requests>>
    /\ served' = [served EXCEPT
                    ![<<p.req.method, p.req.path, p.resp.status>>] = @ + 1]
    /\ last_done' = [unrecognized |-> p.exc.code # 0 /\ ~p.exc.http,
                     alone |-> p.alone]
    /\ inflight' = inflight (-) SetToBag({p})

\* http_requests_total.labels(...).inc(), unless the path is skipped
after_request(p) ==
    /\ p.pc = "after"
    /\ IF p.req.path \notin SkipAfter
       THEN /\ http_requests_total' =
                  Inc(http_requests_total,
                      <<p.req.method, p.req.path, p.resp.status>>)
            /\ Step(p, [p EXCEPT !.pc = "observe"])
            /\ UNCHANGED hist_vars
       ELSE /\ Complete(p)
            /\ UNCHANGED http_requests_total
    /\ UNCHANGED <<shared, duration_count, duration_bucket, request_size_count,
                   response_size_count, db_vars, started, fn_vars, sampler_vars>>

\* after_request stopping after the duration histogram: the two size
\* histograms are not observed
after_request_observe_duration_only(p) ==
    /\ p.pc = "observe"
    /\ duration_count' = Inc(duration_count, <<p.req.method, p.req.path>>)
    /\ \E duration \in durations :
          duration_bucket' =
              Observe(duration_bucket, <<p.req.method, p.req.path>>, duration)
    /\ Complete(p)
    /\ UNCHANGED <<shared, http_requests_total, request_size_count,
                   response_size_count, db_vars, started, fn_vars, sampler_vars>>

\* the three observe() calls of after_request, then the response is returned;
\* the duration observed is time.time() - request.start_time
after_request_observe(p) ==
    /\ p.pc = "observe"
    /\ duration_count' = Inc(duration_count, <<p.req.method, p.req.path>>)
    /\ \E duration \in durations :
          duration_bucket' =
              Observe(duration_bucket, <<p.req.method, p.req.path>>, duration)
    /\ request_size_count' = Inc(request_size_count, <<p.req.method, p.req.path>>)
    /\ response_size_count' = Inc(response_size_count, <<p.req.method, p.req.path>>)
    /\ Complete(p)
    /\ UNCHANGED <<shared, http_requests_total, db_vars, started, fn_vars, sampler_vars>>

\* ------------------------------------------------------- specification
Next ==
    \/ \E r \in Requests : before_request(r)
    \/ \E p \in Running : increment_request_store(p)
    \/ \E p \in Running : increment_request_guard(p)
    \/ \E p \in Running : increment_request_rate(p)
    \/ \E p \in Running : increment_request_set(p)
    \/ \E p \in Running : not_found(p)
    \/ \E p \in Running : metrics(p)
    \/ \E p \in Running : simulate_error(p)
    \/ \E p \in Running : health_check(p)
    \/ \E p \in Running : health_check_metrics(p)
    \/ \E p \in Running : get_analytics(p)
    \/ \E p \in Running : get_analytics_rate(p)
    \/ \E p \in Running : get_users(p)
    \/ \E p \in Running : increment_error_store(p)
    \/ \E p \in Running : increment_error_guard(p)
    \/ \E p \in Running : increment_error_rate(p)
    \/ \E p \in Running : increment_error_set(p)
    \/ \E p \in Running : after_request(p)
    \/ \E p \in Running : after_request_observe(p)

Spec == Init /\ [][Next]_vars

\* Runs in which clients send the requests of one mix only
Req(path, arg) ==
    [method |-> "GET", path |-> path, arg |-> arg, key |-> NoHeader, body |-> ""]
Mixes == {
    {Req("/api/simulate-error", "500"), Req("/api/simulate-error", "404")},
    {Req("/api/simulate-error", "500"), Req("/favicon.ico", "")},
    {Req("/metrics", ""), Req("/api/analytics", "")},
    {Req("/health", ""), Req("/api/health", "")},
    {Req("/api/users", ""), Req("/api/simulate-error", "429")},
    {Req("/api/simulate-error", "403")} }
InitMix ==
    /\ Start /\ traffic \in Mixes /\ budget = MaxMixRequests
    /\ readings = <<0, 0, 0>> /\ durations = {101}
    /\ load_test = NoLoadTest /\ workers = <<>>
SpecMix == InitMix /\ [][Next]_vars

\* Runs in which clients send GET /api/users only, the requests taking any of
\* the sampled durations
InitHist ==
    /\ Start /\ traffic = {Req("/api/users", "")} /\ budget = MaxHistRequests
    /\ readings = <<0, 0, 0>> /\ durations = DurationSamples
    /\ load_test = NoLoadTest /\ workers = <<>>
NextHist ==
    \/ \E r \in Requests : before_request(r)
    \/ \E p \in Running : increment_request_store(p)
    \/ \E p \in Running : increment_request_guard(p)
    \/ \E p \in Running : increment_request_rate(p)
    \/ \E p \in Running : increment_request_set(p)
    \/ \E p \in Running : get_users(p)
    \/ \E p \in Running : increment_error_store(p)
    \/ \E p \in Running : increment_error_guard(p)
    \/ \E p \in Running : increment_error_rate(p)
    \/ \E p \in Running : increment_error_set(p)
    \/ \E p \in Running : after_request(p)
    \/ \E p \in Running : after_request_observe(p)
SpecHist == InitHist /\ [][NextHist]_vars

\* ------------------------------------------------ the protected routes
\* Clients send requests to POST /api/users and GET /api/config, with and
\* without the configured key, two of them at a time.
ApiReq(method, path, key, body) ==
    [method |-> method, path |-> path, arg |-> "", key |-> key, body |-> body]
ApiMixes == {
    {ApiReq("POST", "/api/users", PROMETHEUS_HEX, "valid"),
     ApiReq("POST", "/api/users", PROMETHEUS_HEX, "missing")},
    {ApiReq("POST", "/api/users", NoHeader, "valid"),
     ApiReq("POST", "/api/users", "wrong-key", "valid")},
    {ApiReq("POST", "/api/users", PROMETHEUS_HEX, "valid"),
     ApiReq("POST", "/api/users", "wrong-key", "missing")},
    {ApiReq("POST", "/api/users", NoHeader, "missing"),
     ApiReq("GET", "/api/config", PROMETHEUS_HEX, "")},
    {ApiReq("GET", "/api/config", NoHeader, ""),
     ApiReq("GET", "/api/config", "wrong-key", "")} }
InitApi ==
    /\ Start /\ traffic \in ApiMixes /\ budget = MaxApiRequests
    /\ readings = <<0, 0, 0>> /\ durations = {101}
    /\ load_test = NoLoadTest /\ workers = <<>>
NextApi ==
    \/ \E r \in ApiRequests : before_request(r)
    \/ \E p \in Running : increment_request_store(p)
    \/ \E p \in Running : increment_request_guard(p)
    \/ \E p \in Running : increment_request_rate(p)
    \/ \E p \in Running : increment_request_set(p)
    \/ \E p \in Running : create_user(p)
    \/ \E p \in Running : get_config(p)
    \/ \E p \in Running : increment_error_store(p)
    \/ \E p \in Running : increment_error_guard(p)
    \/ \E p \in Running : increment_error_rate(p)
    \/ \E p \in Running : increment_error_set(p)
    \/ \E p \in Running : after_request(p)
    \/ \E p \in Running : after_request_observe(p)
SpecApi == InitApi /\ [][NextApi]_vars

\* ------------------------------------------- function specification
\* The health score and the error rate as functions of the counts: requests
\* are served one at a time (each call runs to its end before the next), the
\* sampler thread ticks in between.

\* variant: a request cannot update the telemetry while the monitor thread
\* sleeps (the sleep is taken inside a lock the updates need)
serial_request_after_sleep(skipped, raises) ==
    /\ monitor.pc # "sleep"
    /\ skipped => raises
    /\ total_requests < MaxCount
    /\ error_count < MaxCount
    /\ LET tr1 == IF skipped THEN total_requests ELSE total_requests + 1
           g1 == IF ~skipped /\ tr1 > 0
                 THEN ErrorRateExpr(error_count, tr1) ELSE error_rate
           ec1 == IF raises THEN error_count + 1 ELSE error_count
           g2 == IF raises /\ tr1 > 0 THEN ErrorRateExpr(ec1, tr1) ELSE g1
       IN  /\ total_requests' = tr1
           /\ error_count' = ec1
           /\ error_rate' = g2
    /\ IF raises
       THEN now' = now + 1 /\ last_error_timestamp' = now + 1
       ELSE UNCHANGED time_vars
    /\ UNCHANGED <<metrics_vars, db_vars, inflight, started, hist_vars, fn_vars,
                   sampler_vars>>

\* One request served with no other in flight: before_request calls
\* increment_request unless the path is skipped, handle_exception calls
\* increment_error when the request raises.
serial_request(skipped, raises) ==
    /\ skipped => raises
    /\ total_requests < MaxCount
    /\ error_count < MaxCount
    /\ LET tr1 == IF skipped THEN total_requests ELSE total_requests + 1
           g1 == IF ~skipped /\ tr1 > 0
                 THEN ErrorRateExpr(error_count, tr1) ELSE error_rate
           ec1 == IF raises THEN error_count + 1 ELSE error_count
           g2 == IF raises /\ tr1 > 0 THEN ErrorRateExpr(ec1, tr1) ELSE g1
       IN  /\ total_requests' = tr1
           /\ error_count' = ec1
           /\ error_rate' = g2
    /\ IF raises
       THEN now' = now + 1 /\ last_error_timestamp' = now + 1
       ELSE UNCHANGED time_vars
    /\ monitor' = IF monitor.pc = "sleep"
                  THEN [monitor EXCEPT !.asleep_served = @ + 1] ELSE monitor
    /\ UNCHANGED <<metrics_vars, db_vars, inflight, started, hist_vars, fn_vars,
                   snapshot>>

\* One tick of monitor_loop with readings h: the health score is computed and
\* written to the app_health_score gauge.
collect_system_metrics(h) ==
    /\ LET score == calculate_health_score(h[1], h[2], h[3], error_count,
                                           total_requests)
       IN  /\ app_health_score' = score
           /\ last_call' = [fn |-> "collect", host |-> h, ec |-> error_count,
                            tr |-> total_requests, score |-> score,
                            rate |-> NoVal]
           /\ snapshot' = [g \in SnapshotGauges |-> "current"]
    /\ UNCHANGED <<shared, metrics_vars, db_vars, inflight, started, hist_vars,
                   monitor>>

\* One GET /api/health served with no other request in flight, with readings h
health_check_serial(h) ==
    /\ total_requests < MaxCount
    /\ LET tr1 == total_requests + 1
       IN  /\ total_requests' = tr1
           /\ error_rate' = IF tr1 > 0 THEN ErrorRateExpr(error_count, tr1)
                                       ELSE error_rate
           /\ last_call' =
                 [fn |-> "health", host |-> h, ec |-> error_count, tr |-> tr1,
                  score |-> calculate_health_score(h[1], h[2], h[3],
                                                   error_count, tr1),
                  rate |-> ReportedErrorRate(error_count, tr1)]
    /\ UNCHANGED <<error_count, time_vars, app_health_score, metrics_vars,
                   db_vars, inflight, started, hist_vars, sampler_vars>>

InitScore ==
    /\ Start /\ traffic = {} /\ budget = 0 /\ readings \in HostSamples
    /\ durations = {}
    /\ load_test = NoLoadTest /\ workers = <<>>

NextScore ==
    \/ \E skipped, raises \in BOOLEAN : serial_request(skipped, raises)
    \/ collect_system_metrics(readings)
    \/ health_check_serial(readings)

SpecScore == InitScore /\ [][NextScore]_vars

\* --------------------------------------------------------- monitor thread
\* collect_system_metrics step by step, as the daemon thread of
\* start_system_monitoring runs it.  snapshot records which tick set the value
\* each gauge holds: "current" (the tick that started last), "previous" (the
\* one before it), "older", or "none" (never set).

\* a gauge is set by the running tick
SetGauges(G) == [g \in SnapshotGauges |-> IF g \in G THEN "current" ELSE snapshot[g]]

\* "while True:" calls collect_system_metrics: a new tick starts
monitor_loop ==
    /\ monitor.pc = "loop"
    /\ monitor' = [NewMonitor EXCEPT !.pc = "cpu",
                                     !.resumed = monitor.resumed \/ monitor.failed]
    /\ snapshot' = [g \in SnapshotGauges |->
                      CASE snapshot[g] = "current" -> "previous"
                        [] snapshot[g] = "previous" -> "older"
                        [] OTHER -> snapshot[g]]
    /\ UNCHANGED <<shared, metrics_vars, db_vars, inflight, started, hist_vars,
                   fn_vars>>

\* variant: no try / except around the readings, the exception ends the thread
collect_raises_uncaught(at) ==
    /\ monitor.pc = at
    /\ at \in {"cpu", "memory", "disk", "connections"}
    /\ monitor' = [monitor EXCEPT !.pc = "terminated", !.failed = TRUE]
    /\ UNCHANGED <<shared, metrics_vars, db_vars, inflight, started, hist_vars,
                   fn_vars, snapshot>>

\* a psutil read raises (cpu_percent, virtual_memory, disk_usage or
\* net_connections; disk.total = 0 makes the division raise): the
\* "except Exception" logs the error and collect_system_metrics returns
collect_raises(at) ==
    /\ monitor.pc = at
    /\ at \in {"cpu", "memory", "disk", "connections"}
    /\ monitor' = [monitor EXCEPT !.pc = "sleep", !.failed = TRUE]
    /\ UNCHANGED <<shared, metrics_vars, db_vars, inflight, started, hist_vars,
                   fn_vars, snapshot>>

\* cpu_percent = psutil.cpu_percent(interval=1); system_cpu_usage_percent.set
collect_cpu ==
    /\ monitor.pc = "cpu"
    /\ monitor' = [monitor EXCEPT !.pc = "memory", !.cpu_percent = readings[1]]
    /\ snapshot' = SetGauges({"system_cpu_usage_percent"})
    /\ UNCHANGED <<shared, metrics_vars, db_vars, inflight, started, hist_vars,
                   fn_vars>>

\* memory = psutil.virtual_memory(); the two memory gauges are set
collect_memory ==
    /\ monitor.pc = "memory"
    /\ monitor' = [monitor EXCEPT !.pc = "disk", !.memory_percent = readings[2]]
    /\ snapshot' = SetGauges({"system_memory_usage_bytes",
                              "system_memory_available_bytes"})
    /\ UNCHANGED <<shared, metrics_vars, db_vars, inflight, started, hist_vars,
                   fn_vars>>

\* disk = psutil.disk_usage('/'); the disk gauge and app_uptime_seconds are set
collect_disk ==
    /\ monitor.pc = "disk"
    /\ monitor' = [monitor EXCEPT !.pc = "score",
                                  !.disk_usage_percent = readings[3]]
    /\ snapshot' = SetGauges({"system_disk_usage_percent", "app_uptime_seconds"})
    /\ UNCHANGED <<shared, metrics_vars, db_vars, inflight, started, hist_vars,
                   fn_vars>>

\* variant: calculate_health_score writes the gauge itself
collect_health_score_sets ==
    /\ monitor.pc = "score"
    /\ LET score == calculate_health_score(monitor.cpu_percent,
                        monitor.memory_percent, monitor.disk_usage_percent,
                        error_count, total_requests)
       IN  /\ monitor' = [monitor EXCEPT !.pc = "set_score", !.health_score = score]
           /\ app_health_score' = score
           /\ last_call' = [fn |-> "collect",
                            host |-> <<monitor.cpu_percent, monitor.memory_percent,
                                       monitor.disk_usage_percent>>,
                            ec |-> error_count, tr |-> total_requests,
                            score |-> score, rate |-> NoVal]
    /\ UNCHANGED <<shared, metrics_vars, db_vars, inflight, started, hist_vars,
                   snapshot>>

\* health_score = self.calculate_health_score(cpu_percent, memory.percent,
\* disk_usage_percent): the call and its return
collect_health_score ==
    /\ monitor.pc = "score"
    /\ LET score == calculate_health_score(monitor.cpu_percent,
                        monitor.memory_percent, monitor.disk_usage_percent,
                        error_count, total_requests)
       IN  /\ monitor' = [monitor EXCEPT !.pc = "set_score", !.health_score = score]
           /\ last_call' = [fn |-> "collect",
                            host |-> <<monitor.cpu_percent, monitor.memory_percent,
                                       monitor.disk_usage_percent>>,
                            ec |-> error_count, tr |-> total_requests,
                            score |-> score, rate |-> NoVal]
    /\ UNCHANGED <<shared, metrics_vars, db_vars, inflight, started, hist_vars,
                   app_health_score, snapshot>>

\* app_health_score.set(health_score); database_connection_pool_size.set(...)
collect_set_health_score ==
    /\ monitor.pc = "set_score"
    /\ app_health_score' = monitor.health_score
    /\ monitor' = [monitor EXCEPT !.pc = "connections"]
    /\ snapshot' = SetGauges({"app_health_score"})
    /\ UNCHANGED <<shared, metrics_vars, db_vars, inflight, started, hist_vars,
                   last_call>>

\* active_connections.set(len(psutil.net_connections())); the debug log;
\* collect_system_metrics returns
collect_connections ==
    /\ monitor.pc = "connections"
    /\ monitor' = [monitor EXCEPT !.pc = "sleep"]
    /\ UNCHANGED <<shared, metrics_vars, db_vars, inflight, started, hist_vars,
                   fn_vars, snapshot>>

\* time.sleep(Config.MONITORING_INTERVAL) returns
monitor_sleep ==
    /\ monitor.pc = "sleep"
    /\ monitor' = [monitor EXCEPT !.pc = "loop"]
    /\ UNCHANGED <<shared, metrics_vars, db_vars, inflight, started, hist_vars,
                   fn_vars, snapshot>>

MonitorNext ==
    \/ monitor_loop
    \/ \E at \in {"cpu", "memory", "disk", "connections"} : collect_raises(at)
    \/ collect_cpu
    \/ collect_memory
    \/ collect_disk
    \/ collect_health_score
    \/ collect_set_health_score
    \/ collect_connections
    \/ monitor_sleep

\* The monitor thread alone
InitMonitor ==
    /\ Start /\ traffic = {} /\ budget = 0 /\ readings \in HostReadings
    /\ durations = {}
    /\ load_test = NoLoadTest /\ workers = <<>>
\* the thread is scheduled as long as it can take a step, and the sleep ends
FairMonitor == InitMonitor /\ [][MonitorNext]_vars /\ WF_vars(MonitorNext)

\* The monitor thread while requests are served, one at a time
NextSampler ==
    \/ monitor_loop
    \/ \E at \in {"cpu", "memory", "disk", "connections"} : collect_raises(at)
    \/ collect_cpu
    \/ collect_memory
    \/ collect_disk
    \/ collect_health_score
    \/ collect_set_health_score
    \/ collect_connections
    \/ monitor_sleep
    \/ \E skipped, raises \in BOOLEAN :
          /\ total_requests < MaxTickRequests
          /\ error_count < MaxTickRequests
          /\ serial_request(skipped, raises)
SpecSampler == InitMonitor /\ [][NextSampler]_vars

\* a client's request is served
serve_request ==
    \E skipped, raises \in BOOLEAN :
        /\ total_requests < MaxTickRequests
        /\ error_count < MaxTickRequests
        /\ serial_request(skipped, raises)
\* The request threads are scheduled as long as clients send requests; nothing
\* is assumed about the monitor thread: its sleep may last for ever.
FairRequests == InitMonitor /\ [][NextSampler]_vars /\ WF_vars(serve_request)

\* ------------------------------- app_20250706113427.py: active_requests
\* The version of the app that tracks the requests in flight in a gauge.
\* Paths clients request: /about returns 200, /error raises Exception, no
\* route is registered for /missing, /metrics returns 200 or aborts with 500.
\* No route of this version aborts with 403, so its 403 handler never runs.
TimedPaths == {"/about", "/error", "/missing", "/metrics"}
\* the thread-local state of a request of this version: downs is history, the
\* number of active_requests.dec() calls made for the request
TimedThread(path) == [pc |-> "route", path |-> path, code |-> 0, downs |-> 0]

\* every variable of the first app version and of the load tester
first_app_vars == <<shared, metrics_vars, db_vars, fn_vars, sampler_vars,
                    served, last_done, traffic, budget, readings, durations,
                    load_vars>>

\* before_request: request.start_time = time.time(); active_requests.inc()
start_timer(path) ==
    /\ path \in traffic
    /\ BagCardinality(inflight) < NumThreads
    /\ started < budget
    /\ started' = started + 1
    /\ active_requests' = active_requests + 1
    /\ inflight' = inflight (+) SetToBag({TimedThread(path)})
    /\ UNCHANGED first_app_vars

\* routing and the view function: it returns, or an exception is raised
\* (NotFound by the routing, Exception by error_endpoint, abort(500) by metrics)
dispatch_request(p) ==
    /\ p.pc = "route"
    /\ \/ /\ p.path \in {"/about", "/metrics"}
          /\ Step(p, [p EXCEPT !.pc = "track", !.code = 200])
       \/ /\ p.path \in {"/error", "/metrics"}
          /\ Step(p, [p EXCEPT !.pc = "handler", !.code = 500])
       \/ /\ p.path = "/missing"
          /\ Step(p, [p EXCEPT !.pc = "handler", !.code = 404])
    /\ UNCHANGED <<first_app_vars, started, active_requests>>

\* @app.errorhandler(Exception): error_counter.inc(), active_requests.dec(),
\* the 500 response
handle_exception(p) ==
    /\ p.pc = "handler"
    /\ p.code = 500
    /\ active_requests' = active_requests - 1
    /\ Step(p, [p EXCEPT !.pc = "track", !.downs = @ + 1])
    /\ UNCHANGED <<first_app_vars, started>>

\* @app.errorhandler(404): error_counter.inc(), active_requests.dec(), the
\* 404 response
page_not_found(p) ==
    /\ p.pc = "handler"
    /\ p.code = 404
    /\ active_requests' = active_requests - 1
    /\ Step(p, [p EXCEPT !.pc = "track", !.downs = @ + 1])
    /\ UNCHANGED <<first_app_vars, started>>

\* after_request, run for the response of the view and for the response of
\* an error handler alike: the per-endpoint metrics (not modelled), then
\* active_requests.dec(); the response is returned and the thread ends
track_metrics(p) ==
    /\ p.pc = "track"
    /\ active_requests' = active_requests - 1
    /\ inflight' = inflight (-) SetToBag({p})
    /\ UNCHANGED <<first_app_vars, started>>

NextActive ==
    \/ \E path \in TimedPaths : start_timer(path)
    \/ \E p \in Running : dispatch_request(p)
    \/ \E p \in Running : handle_exception(p)
    \/ \E p \in Running : page_not_found(p)
    \/ \E p \in Running : track_metrics(p)
InitActive ==
    /\ Start /\ traffic = TimedPaths /\ budget = MaxActiveRequests
    /\ readings = <<0, 0, 0>> /\ durations = {}
    /\ load_test = NoLoadTest /\ workers = <<>>
SpecActive == InitActive /\ [][NextActive]_vars

\* ------------------------------------------------------------ load tester
\* LoadTester.run_load_test and its workers (load-test_20250618112717.py).
\* Time is each worker's own: elapsed is time.time() minus the time at which
\* the worker started.

\* a worker submitted to the ThreadPoolExecutor with the given per-worker rate
\*   made, slept, last_sleep  history: requests made, sleeps taken and the
\*                            argument of the last time.sleep
NewWorker(rate) ==
    [pc |-> "start", requests_per_second |-> rate, interval |-> NoVal,
     elapsed |-> <<0, 1>>, made |-> 0, slept |-> 0, last_sleep |-> NoVal,
     result |-> NoResult, call |-> NoHttpCall,
     failures |-> 0]

\* variant: every worker is given the aggregate rate
run_load_test_submit_undivided ==
    /\ load_test.pc = "submit"
    /\ Len(workers) < load_test.num_threads
    /\ workers' = Append(workers,
                     NewWorker(Frac(load_test.requests_per_second, 1)))
    /\ load_test' = [load_test EXCEPT
                       !.pc = IF Len(workers) + 1 = load_test.num_threads
                              THEN "wait" ELSE "submit"]
    /\ UNCHANGED server_vars

\* one iteration of "for _ in range(num_threads)": executor.submit(self.worker,
\* duration, requests_per_second / num_threads); the executor starts a thread
\* for it (max_workers = num_threads).  After the last one the futures are
\* awaited.
run_load_test_submit ==
    /\ load_test.pc = "submit"
    /\ Len(workers) < load_test.num_threads
    /\ workers' = Append(workers,
                     NewWorker(Frac(load_test.requests_per_second,
                                    load_test.num_threads)))
    /\ load_test' = [load_test EXCEPT
                       !.pc = IF Len(workers) + 1 = load_test.num_threads
                              THEN "wait" ELSE "submit"]
    /\ UNCHANGED server_vars

\* end_time = time.time() + duration; interval = 1.0 / requests_per_second
worker(i) ==
    /\ workers[i].pc = "start"
    /\ workers' = [workers EXCEPT
                     ![i].pc = "loop",
                     ![i].interval = Frac(workers[i].requests_per_second[2],
                                          workers[i].requests_per_second[1])]
    /\ UNCHANGED <<load_test, server_vars>>

\* "while time.time() < end_time:" and the choice of the endpoint
worker_loop(i) ==
    /\ workers[i].pc = "loop"
    /\ workers' = [workers EXCEPT
                     ![i].pc = IF FracLT(workers[i].elapsed, load_test.duration)
                               THEN "request" ELSE "done"]
    /\ UNCHANGED <<load_test, server_vars>>

\* make_request variant that reports success only for responses below 400
make_request_ok_only(call) ==
    IF call.raised
    THEN [status_code |-> 0, success |-> FALSE, error |-> TRUE]
    ELSE [status_code |-> call.status_code, success |-> call.status_code < 400,
          error |-> FALSE]

\* LoadTester.make_request: the result dictionary built in the try block when
\* requests.get returned a response, and in "except Exception" when it raised
make_request(call) ==
    IF call.raised
    THEN [status_code |-> 0, success |-> FALSE, error |-> TRUE]
    ELSE [status_code |-> call.status_code, success |-> TRUE, error |-> FALSE]

\* result = self.make_request(endpoint) returns after took seconds, and the
\* result line is printed
worker_request(i, took, call) ==
    /\ workers[i].pc = "request"
    /\ workers' = [workers EXCEPT
                     ![i].pc = "sleep",
                     ![i].made = @ + 1,
                     ![i].elapsed = FracAdd(@, <<took, 1>>),
                     ![i].result = make_request(call),
                     ![i].call = call,
                     ![i].failures = IF call.raised THEN @ + 1 ELSE @]
    /\ UNCHANGED <<load_test, server_vars>>

\* time.sleep(interval)
worker_sleep(i) ==
    /\ workers[i].pc = "sleep"
    /\ workers' = [workers EXCEPT
                     ![i].pc = "loop",
                     ![i].slept = @ + 1,
                     ![i].last_sleep = workers[i].interval,
                     ![i].result = NoResult,
                     ![i].call = NoHttpCall,
                     ![i].elapsed = FracAdd(@, workers[i].interval)]
    /\ UNCHANGED <<load_test, server_vars>>

\* variant: the futures are not awaited
run_load_test_result_no_wait ==
    /\ load_test.pc = "wait"
    /\ load_test' = [load_test EXCEPT !.pc = "done"]
    /\ UNCHANGED <<workers, server_vars>>

\* "for future in futures: future.result()": the next future has finished;
\* after the last one the with-block ends and the completion is printed
run_load_test_result ==
    /\ load_test.pc = "wait"
    /\ IF load_test.joined < Len(workers)
       THEN /\ workers[load_test.joined + 1].pc = "done"
            /\ load_test' = [load_test EXCEPT !.joined = @ + 1]
       ELSE load_test' = [load_test EXCEPT !.pc = "done"]
    /\ UNCHANGED <<workers, server_vars>>

NextLoad ==
    \/ run_load_test_submit
    \/ \E i \in DOMAIN workers : worker(i)
    \/ \E i \in DOMAIN workers : worker_loop(i)
    \/ \E i \in DOMAIN workers : \E took \in RequestTimes, call \in HttpCalls :
          worker_request(i, took, call)
    \/ \E i \in DOMAIN workers : worker_sleep(i)
    \/ run_load_test_result

\* run_load_test(duration, requests_per_second, num_threads) has been called
InitLoad ==
    /\ Start /\ traffic = {} /\ budget = 0 /\ readings = <<0, 0, 0>>
    /\ durations = {}
    /\ \E d \in LoadDurations, r \in 1..MaxRate, t \in 1..MaxWorkers :
          load_test = [pc |-> "submit", duration |-> d,
                       requests_per_second |-> r, num_threads |-> t,
                       joined |-> 0]
    /\ workers = <<>>
SpecLoad == InitLoad /\ [][NextLoad]_vars
\* the threads of the load tester keep being scheduled
FairLoad == InitLoad /\ [][NextLoad]_vars /\ WF_vars(NextLoad)

\* =================================================================== claims
RECURSIVE SumOver(_, _)
SumOver(f, S) ==
    IF S = {} THEN 0
    ELSE LET x == CHOOSE y \in S : TRUE IN f[x] + SumOver(f, S \ {x})

\* requests completed so far
NumServed == SumOver(served, Series)

\* series of requests on counted paths whose route raised
RaisedSeries ==
    {s \in Series : s[2] \in {"/api/simulate-error", "/api/analytics", "/api/users"}
                    /\ s[3] >= 400}

\* a percentage within 0..100
InRange(f) == f[2] > 0 /\ f[1] >= 0 /\ f[1] <= 100 * f[2]

\* the rational f equals 100 * ec / tr
IsRate(f, ec, tr) == f[2] > 0 /\ f[1] * tr = 100 * ec * f[2]

\* C1: in every reachable state error_count is at most total_requests
\* (requests to any path, also ones that end in an error).
C1_ErrorsAtMostRequests == error_count <= total_requests

\* C2: every request whose handler raises adds exactly one to total_requests
\* and exactly one to error_count, under every interleaving: once all requests
\* have completed and all of them raised in their route, both counts equal the
\* number of requests.
C2_RaisingRequestCountedOnce ==
    (Quiescent /\ \A s \in Series : served[s] > 0 => s \in RaisedSeries)
        => (error_count = NumServed /\ total_requests = NumServed)

\* C3 (as stated): when the requests have all completed, every series of
\* http_requests_total has grown by the number of requests with that method,
\* path and status code.
C3_EverySeriesCountsItsRequests ==
    Quiescent => \A s \in Series : http_requests_total[s] = served[s]

\* C3 (amended): for every path other than /favicon.ico and /metrics, when the
\* requests have all completed, the series of http_requests_total has grown by
\* exactly the number of requests with that method, path and status code, for
\* every interleaving; requests to /favicon.ico and /metrics are not counted.
C3_RecordedSeriesCountsItsRequests ==
    Quiescent =>
        \A s \in Series :
            http_requests_total[s] =
                IF s[2] \in {"/favicon.ico", "/metrics"} THEN 0 ELSE served[s]

\* C3 witness: two requests with the same method, path and status code ran
\* at the same time and have completed; their series holds 2.
C3_Witness ==
    /\ Quiescent
    /\ started = 2
    /\ ~last_done.alone
    /\ \E s \in Series : http_requests_total[s] = 2 /\ served[s] = 2

\* C4: no counter of the telemetry state ever takes a value lower than one it
\* held before.
C4_CountersNeverDecrease ==
    [][/\ total_requests' >= total_requests
       /\ error_count' >= error_count
       /\ \A s \in Series : http_requests_total'[s] >= http_requests_total[s]
       /\ \A c \in ApiCalls : api_calls_total'[c] >= api_calls_total[c]
       /\ \A d \in DbSeries :
             database_operations_total'[d] >= database_operations_total[d]]_vars

\* C5: every health score computed, for any readings and any reachable pair
\* of counts, is within 0..100; so are the app_health_score gauge and the
\* health_score field of /api/health.
C5_ScoreInRange ==
    /\ app_health_score \in 0..100
    /\ last_call.fn # "" => last_call.score \in 0..100

\* C5 witness: under full load the sampler wrote 25 to the gauge before any
\* error, and /api/health has since reported the lowest score, 5.
C5_Witness ==
    /\ last_call.fn = "health"
    /\ last_call.score = 5
    /\ app_health_score = 25

\* the score of the rule of C6, the error rate being
\* 100 * error_count / max(total_requests, 1)
C6_Rule(cpu, mem, disk, ec, tr) ==
    LET d == IF tr >= 1 THEN tr ELSE 1
        pcpu == IF cpu > 80 THEN 30 ELSE IF cpu > 60 THEN 15 ELSE 0
        pmem == IF mem > 90 THEN 25 ELSE IF mem > 70 THEN 10 ELSE 0
        pdisk == IF disk > 95 THEN 20 ELSE IF disk > 85 THEN 10 ELSE 0
        perr == IF 100 * ec > 10 * d THEN 20
                ELSE IF 100 * ec > 5 * d THEN 10 ELSE 0
        total == 100 - pcpu - pmem - pdisk - perr
    IN  IF total >= 0 THEN total ELSE 0

\* C6: every health score computed equals max(0, 100 - Pcpu - Pmem - Pdisk -
\* Perr) with strict thresholds, one tier per dimension, and the error rate
\* taken as 100 * error_count / max(total_requests, 1).
C6_ScoreFollowsRule ==
    last_call.fn # "" =>
        last_call.score = C6_Rule(last_call.host[1], last_call.host[2],
                                  last_call.host[3], last_call.ec, last_call.tr)

\* the case of C7: all readings at 100 percent, every request an error
C7_FullLoad ==
    /\ last_call.fn # ""
    /\ last_call.host = <<100, 100, 100>>
    /\ last_call.tr > 0
    /\ last_call.ec = last_call.tr

\* C7 (as stated): with cpu, memory and disk at 100 percent and an error rate
\* of 100 percent the health score is 0.
C7_FullLoadScoresZero == C7_FullLoad => last_call.score = 0

\* C7 (amended): with cpu, memory and disk at 100 percent and an error rate
\* of 100 percent the health score is 5 = 100 - 30 - 25 - 20 - 20; the
\* penalties add up to 95 at most, so the clamp at 0 is never reached.
C7_FullLoadScoresFive == C7_FullLoad => last_call.score = 5

\* C7 witness: a score has been computed under full load.
C7_Witness == C7_FullLoad /\ last_call.fn = "collect" /\ app_health_score = 5

\* C8: every error rate the program produces (written to the gauge, about to
\* be written, or put into a response) lies within 0..100.
C8_RatesInRange ==
    /\ InRange(error_rate)
    /\ \A p \in Running :
          /\ p.val # NoVal => InRange(p.val)
          /\ p.resp.rate # NoVal => InRange(p.resp.rate)

IsRoundedRate(f, ec, tr) ==
    /\ f[2] > 0
    /\ 100 % f[2] = 0
    /\ LET diff == f[1] * tr - 100 * ec * f[2]
       IN  /\ 200 * diff <= f[2] * tr
           /\ -200 * diff <= f[2] * tr

C10_GaugeAfterUnrecognizedError ==
    (Quiescent /\ last_done.unrecognized /\ last_done.alone) =>
        /\ total_requests > 0
        /\ IsRate(error_rate, error_count, total_requests)

\* C10 witness: the first request served raised an unrecognized exception.
C10_Witness ==
    /\ Quiescent
    /\ last_done.unrecognized /\ last_done.alone
    /\ started = 1
    /\ error_count = 1 /\ total_requests = 1
    /\ error_rate = <<100, 1>>

\* C11: a request to /metrics leaves total_requests, error_count, the
\* error_rate_percent gauge, every http_requests_total series and every
\* latency / size histogram as they were, whether generate_latest succeeds or
\* raises: when only /metrics requests have been served, all of them hold
\* their initial values.
C11_MetricsRequestLeavesTelemetry ==
    (Quiescent /\ \A s \in Series : served[s] > 0 => s[2] = "/metrics") =>
        /\ total_requests = 0
        /\ error_count = 0
        /\ error_rate = <<0, 1>>
        /\ \A s \in Series : http_requests_total[s] = 0
        /\ \A e \in Endpoints :
              /\ duration_count[e] = 0
              /\ request_size_count[e] = 0
              /\ response_size_count[e] = 0


\* requests whose response has been built
Responded == {p \in Running : p.pc \in {"after", "observe"}}

\* C12: handle_exception answers a recognized HTTP exception with its own
\* status code and description, and any other exception with status 500 and
\* the fixed message "Internal Server Error"; the message of such an exception
\* is not in the response body.
C12_ExceptionMapping ==
    \A p \in Responded :
        p.exc.code # 0 =>
            IF p.exc.http
            THEN /\ p.resp.status = p.exc.code
                 /\ p.resp.error = p.exc.description
            ELSE /\ p.resp.status = 500
                 /\ p.resp.error = "Internal Server Error"
                 /\ p.resp.error # p.exc.message

\* C12 witness: two error responses are ready at the same time, one for an
\* unrecognized exception (500, fixed message) and one for abort(404).
C12_Witness ==
    \E p, q \in Responded :
        /\ ~p.exc.http /\ p.exc.message # "" /\ p.resp.status = 500
        /\ p.resp.error = "Internal Server Error"
        /\ q.exc.http /\ q.resp.status = 404
        /\ q.resp.error = "The requested URL was not found on the server."

\* C13: every request that ends with an error response (status >= 400) has,
\* before the response is returned, incremented the error count and logged an
\* error record, and its body contains an error_id and a timestamp.
C13_ErrorPathsCountLogAndIdentify ==
    \A p \in Responded :
        p.resp.status >= 400 =>
            /\ p.counted
            /\ p.logged
            /\ p.resp.error_id
            /\ p.resp.timestamp


\* C16: when a resource read or the score computation raises while
\* /api/health is served, the response is 503 with status "unhealthy";
\* otherwise it is 200 with status "healthy", the readings taken in that call,
\* and the error rate and the health score computed in that call from the
\* counts read in it.
C16_HealthCheckStatus ==
    \A p \in Responded :
        p.req.path = "/api/health" =>
            IF p.caught
            THEN /\ p.resp.status = 503
                 /\ p.resp.state = "unhealthy"
            ELSE /\ p.resp.status = 200
                 /\ p.resp.state = "healthy"
                 /\ p.resp.host \in HostReadings
                 /\ p.resp.tr >= 1
                 /\ p.resp.score = C6_Rule(p.resp.host[1], p.resp.host[2],
                                           p.resp.host[3], p.resp.ec, p.resp.tr)
                 /\ \E e \in 0..started :
                       IsRoundedRate(p.resp.rate, e, p.resp.tr)

\* C16 witness: two /api/health responses are ready at the same time, one
\* unhealthy after a failed read and one healthy under full load.
C16_Witness ==
    \E p, q \in Responded :
        /\ p.req.path = "/api/health" /\ p.caught /\ p.resp.status = 503
        /\ q.req.path = "/api/health" /\ ~q.caught /\ q.resp.status = 200
        /\ q.resp.host = <<100, 100, 100>> /\ q.resp.score = 25


\* C20: whenever no request is in flight, total_requests equals the sum of
\* http_requests_total over all label combinations.
C20_TotalEqualsSumOfSeries ==
    Quiescent => total_requests = SumOver(http_requests_total, Series)


C14_TicksForever ==
    /\ []<>(monitor.pc = "cpu")
    /\ (monitor.failed /\ monitor.pc = "sleep") ~> (monitor.pc = "cpu")

\* C14 witness: a tick raised at the memory read of a tick that followed a
\* failed tick: the loop has survived a failure and fails again.
C14_Witness ==
    /\ monitor.resumed
    /\ monitor.failed
    /\ monitor.pc = "sleep"
    /\ snapshot["system_cpu_usage_percent"] = "current"
    /\ snapshot["system_memory_usage_bytes"] # "current"

\* C15: after any tick, also one in which a read raised part-way, the system
\* gauges (cpu, memory used, memory available, disk, uptime, health score)
\* hold values set by one and the same tick.  (Stated for the ticks after the
\* first complete one, when every gauge has been set.)
C15_SnapshotFromOneTick ==
    (monitor.pc = "sleep" /\ \A g \in SnapshotGauges : snapshot[g] # "none") =>
        \A g, h \in SnapshotGauges : snapshot[g] = snapshot[h]

\* the error rate of the state a call was made in: error_count /
\* total_requests, 0 when total_requests is 0, as numerator and denominator
RateOf(call) == IF call.tr > 0 THEN <<call.ec, call.tr>> ELSE <<0, 1>>

\* C17: a call of calculate_health_score leaves error_count, total_requests
\* and every gauge, counter and histogram as they were, and returns the score
\* of the previous call when that call had the same cpu, memory and disk
\* arguments and was made in a state with the same error rate.
C17_ScoreIsPure ==
    [][(monitor.pc = "score" /\ monitor'.pc = "set_score") =>
          /\ UNCHANGED <<error_count, total_requests, error_rate,
                         app_health_score, snapshot, metrics_vars, db_vars>>
          /\ (/\ last_call.fn # ""
              /\ last_call'.host = last_call.host
              /\ RateOf(last_call')[1] * RateOf(last_call)[2]
                    = RateOf(last_call)[1] * RateOf(last_call')[2])
             => last_call'.score = last_call.score]_vars

\* C17 witness: the second call has returned, made with twice the counts of
\* the first and the same error rate; the gauge still holds the score of the
\* first call and the counts are those the call found.
C17_Witness ==
    /\ monitor.pc = "set_score"
    /\ last_call.fn = "collect" /\ last_call.ec = 2 /\ last_call.tr = 2
    /\ error_count = 2 /\ total_requests = 2
    /\ monitor.health_score = 80
    /\ app_health_score = 80
    /\ snapshot["app_health_score"] = "previous"


\* the sum of the per-worker rates
RECURSIVE SumRates(_)
SumRates(ws) ==
    IF ws = <<>> THEN <<0, 1>>
    ELSE FracAdd(Head(ws).requests_per_second, SumRates(Tail(ws)))

\* C18: run_load_test with aggregate rate R > 0 and T >= 1 threads starts
\* exactly T workers, each with rate R / T, whose rates sum to R; every worker
\* sleeps 1 / (R / T) seconds after every request it makes.
C18_EvenSplit ==
    /\ Len(workers) <= load_test.num_threads
    /\ load_test.pc \in {"wait", "done"} =>
          /\ Len(workers) = load_test.num_threads
          /\ SumRates(workers) = <<load_test.requests_per_second, 1>>
    /\ \A i \in DOMAIN workers :
          LET w == workers[i]
          IN  /\ w.requests_per_second[1] * load_test.num_threads
                    = load_test.requests_per_second * w.requests_per_second[2]
              /\ w.made = IF w.pc = "sleep" THEN w.slept + 1 ELSE w.slept
              /\ w.slept > 0 =>
                    /\ w.last_sleep[1] * load_test.requests_per_second
                          = load_test.num_threads * w.last_sleep[2]
                    /\ w.last_sleep[2] > 0

\* C18 witness: rate 3 over 2 threads; both workers were started with rate
\* 3/2, the first has made two requests and slept 2/3 s after each.
C18_Witness ==
    /\ load_test.requests_per_second = 3 /\ load_test.num_threads = 2
    /\ load_test.pc = "wait"
    /\ Len(workers) = 2
    /\ workers[1].requests_per_second = <<3, 2>>
    /\ workers[2].requests_per_second = <<3, 2>>
    /\ workers[1].made = 2 /\ workers[1].slept = 2
    /\ workers[1].last_sleep = <<2, 3>>

\* C25: once concurrently executed increment_request and increment_error
\* calls have all completed and total_requests > 0, the error_rate_percent
\* gauge equals 100 * error_count / total_requests for the final counts,
\* whatever the interleaving.
C25_GaugeMatchesFinalCounts ==
    (Quiescent /\ total_requests > 0) =>
        IsRate(error_rate, error_count, total_requests)

\* a thread is inside the metric updates of after_request
InAfterRequest == \E p \in Running : p.pc = "observe"

\* http_requests_total summed over the status codes of one (method, endpoint)
RECURSIVE SumStatuses(_, _)
SumStatuses(e, codes) ==
    IF codes = <<>> THEN 0
    ELSE http_requests_total[<<e[1], e[2], Head(codes)>>]
         + SumStatuses(e, Tail(codes))
RequestsOf(e) == SumStatuses(e, <<200, 201, 400, 403, 404, 429, 500, 503>>)

\* C26: whenever no after_request execution is in progress, for every
\* (method, endpoint) the observation count of http_request_duration_seconds
\* equals the sum over the status codes of http_requests_total, and equals the
\* observation counts of the request-size and response-size histograms
\* (stated for the endpoints clients send requests to; the metrics of the
\* other endpoints have no samples).
C26_HistogramCountsMatchRequests ==
    /\ Statuses = {200, 201, 400, 403, 404, 429, 500, 503}
    /\ ~InAfterRequest =>
        \A e \in {<<r.method, r.path>> : r \in traffic} :
            /\ duration_count[e] = RequestsOf(e)
            /\ request_size_count[e] = duration_count[e]
            /\ response_size_count[e] = duration_count[e]

\* C26 witness: two requests of one endpoint answered with different status
\* codes were recorded and no after_request is in progress
C26_Witness ==
    /\ ~InAfterRequest
    /\ \E e \in Endpoints :
          /\ duration_count[e] = 2
          /\ \E k1, k2 \in Series :
                /\ k1 # k2 /\ <<k1[1], k1[2]>> = e /\ <<k2[1], k2[2]>> = e
                /\ http_requests_total[k1] = 1 /\ http_requests_total[k2] = 1

\* number of in-flight threads satisfying Test
CountThreads(Test(_)) ==
    BagCardinality([p \in {q \in Running : Test(q)} |-> CopiesIn(p, inflight)])

\* the thread has left its route function (or the decorator of the route)
PastDispatch(p) ==
    p.pc \in {"err_store", "err_rate_ec", "err_rate_tr",
              "err_rate_set", "after", "observe"}

\* a GET /api/users thread whose execute_query("SELECT", "users") call has
\* returned True / has raised
QueryReturned(p) ==
    p.req.path = "/api/users" /\ p.pc \in {"after", "observe"} /\ p.exc = NoExc
QueryRaised(p) ==
    p.req.path = "/api/users" /\ p.exc = OtherException /\ PastDispatch(p)

\* C28: each call of execute_query(operation, table) increments
\* database_operations_total for (operation, table) exactly once, with status
\* 'success' if it returns True and 'error' if it raises; on failure the
\* exception reaches the caller and nothing is added to
\* database_query_duration_seconds.
C28_QueryCountedOnce ==
    \A returned \in {CountThreads(QueryReturned) + served[<<"GET", "/api/users", 200>>]} :
    \A raised \in {CountThreads(QueryRaised) + served[<<"GET", "/api/users", 500>>]} :
        /\ database_operations_total[<<"SELECT", "users", "success">>] = returned
        /\ database_operations_total[<<"SELECT", "users", "error">>] = raised
        /\ database_query_duration_count[<<"SELECT", "users">>] = returned
        /\ returned + raised =
              CountThreads(PastDispatch) + NumServed

\* C28 witness: one call has returned and one has raised, the raising request
\* being still in its exception handler
C28_Witness ==
    /\ database_operations_total[<<"SELECT", "users", "success">>] = 1
    /\ database_operations_total[<<"SELECT", "users", "error">>] = 1
    /\ \E p \in Running : QueryRaised(p) /\ p.pc = "err_store"

\* a request to a route wrapped by require_api_key
Protected(r) ==
    \/ r.method = "POST" /\ r.path = "/api/users"
    \/ r.method = "GET" /\ r.path = "/api/config"
\* its X-API-Key header is absent or differs from the configured key
Unauthorized(r) == Protected(r) /\ r.key # PROMETHEUS_HEX
\* C23: a request to a protected route whose X-API-Key header is absent or
\* differs from the configured key never executes the route body: it causes
\* no database operation and no change to user_registrations_total (both
\* count only requests carrying the key), it is answered with 403 and
\* increment_error ran once for it.
C23_UnauthorizedNeverRuns ==
    /\ \A p \in Running :
          Unauthorized(p.req) /\ PastDispatch(p) =>
              /\ p.exc = HTTPException(403)
              /\ p.pc \in {"after", "observe"} =>
                    /\ p.resp.status = 403
                    /\ p.counted
                    /\ p.alone /\ started = 1 => error_count = 1
    /\ \A authorized \in {CountThreads(LAMBDA p :
                              /\ p.req.method = "POST" /\ ~Unauthorized(p.req)
                              /\ PastDispatch(p))
                          + served[<<"POST", "/api/users", 201>>]
                          + served[<<"POST", "/api/users", 400>>]
                          + served[<<"POST", "/api/users", 500>>]} :
          /\ database_operations_total[<<"INSERT", "users", "success">>]
               + database_operations_total[<<"INSERT", "users", "error">>]
             = authorized
          /\ user_registrations_total <= authorized
    /\ (\A r \in traffic : Unauthorized(r)) =>
          /\ user_registrations_total = 0
          /\ \A k \in Series : served[k] > 0 => k[3] = 403

\* C23 witness: a POST /api/users request without the header was answered
\* (403), a second one with a wrong key has its 403 response ready, and no
\* database operation or registration was counted
C23_Witness ==
    /\ served[<<"POST", "/api/users", 403>>] = 1
    /\ \E p \in Running :
          /\ p.req.key = "wrong-key" /\ p.pc = "after" /\ p.resp.status = 403
    /\ \A k \in DbSeries : database_operations_total[k] = 0
    /\ user_registrations_total = 0

\* C29: user_registrations_total counts created users: it increases by one
\* exactly for each POST /api/users request answered with 201 and is
\* unchanged by a request rejected with 400 or with 403.
C29_RegistrationsCountCreatedUsers ==
    Quiescent => user_registrations_total = served[<<"POST", "/api/users", 201>>]

\* a thread is inside increment_error
InIncrementError ==
    \E p \in Running :
        p.pc \in {"err_store", "err_rate_ec", "err_rate_tr",
                  "err_rate_set"}

\* C22: whenever no increment_error call is in progress, the
\* last_error_timestamp gauge holds the time of the most recent recorded
\* error (the latest time read by an increment_error call), also when
\* erroring requests run increment_error concurrently.
C22_GaugeHoldsLatestErrorTime ==
    (~InIncrementError /\ now > 0) => last_error_timestamp = now

\* C24: make_request never propagates an exception: its result has
\* success = False and status_code = 0 exactly when the HTTP call raised, and
\* success = True with the response's status code for every response received;
\* after a failed request the worker goes on to its sleep and loop test.
C24_MakeRequestNeverRaises ==
    \A i \in DOMAIN workers :
        \A w \in {workers[i]} :
            /\ w.pc = "sleep" =>
                  /\ w.result.success = ~w.call.raised
                  /\ w.result.status_code =
                        (IF w.call.raised THEN 0 ELSE w.call.status_code)
                  /\ (w.result.status_code = 0) = w.call.raised
            /\ w.made = (IF w.pc = "sleep" THEN w.slept + 1 ELSE w.slept)
            /\ w.failures <= w.made

\* C24 witness: a worker's first request raised, the worker slept and went
\* on, and its second request was answered with status 500
C24_Witness ==
    \E i \in DOMAIN workers :
        /\ workers[i].made = 2 /\ workers[i].failures = 1
        /\ workers[i].pc = "sleep"
        /\ workers[i].result = [status_code |-> 500, success |-> TRUE,
                                error |-> FALSE]

\* C30: run_load_test terminates: no worker starts a request once the
\* configured duration has elapsed since the worker began, and run_load_test
\* returns (printing completion) only after all of its num_threads workers
\* have finished.
C30_RunLoadTestTerminates ==
    /\ <>(load_test.pc = "done")
    /\ [](\A i \in DOMAIN workers :
             workers[i].pc = "request" =>
                 FracLT(workers[i].elapsed, load_test.duration))
    /\ [](load_test.pc = "done" =>
             /\ Len(workers) = load_test.num_threads
             /\ \A i \in DOMAIN workers : workers[i].pc = "done")

\* C30 witness: run_load_test has returned after two workers, each of which
\* made at least one request, ran past the duration
C30_Witness ==
    /\ load_test.pc = "done"
    /\ Len(workers) = 2
    /\ \A i \in DOMAIN workers :
          /\ workers[i].made > 0
          /\ ~FracLT(workers[i].elapsed, load_test.duration)

\* C21: while the sampler thread sleeps it holds no lock on the shared
\* telemetry state, so the counter and gauge updates of requests complete
\* without waiting for the sleep to end: even if the sleep never ends, the
\* requests clients send are all served.
C21_SleepBlocksNoRequest ==
    <>[](monitor.pc = "sleep") =>
        <>(total_requests = MaxTickRequests \/ error_count = MaxTickRequests)

\* C21 witness: two requests were served, and counted, during one sleep of
\* the sampler thread
C21_Witness ==
    /\ monitor.pc = "sleep"
    /\ monitor.asleep_served = 2
    /\ total_requests + error_count >= 2

\* C27: in the app version that tracks it, the active_requests gauge equals
\* the number of requests between start_timer and the end of track_metrics:
\* it is never negative and is 0 whenever no request is in flight, also for
\* requests answered by the error handlers.
C27_GaugeCountsRequestsInFlight ==
    /\ active_requests >= 0
    /\ active_requests = BagCardinality(inflight)

====
